---- MODULE Spec2Model ----
(***************************************************************************)
(* A model of the two data-preparation scripts of the repository:          *)
(*   utils/merge_datasets.py  normalize_name, get_inferred_data, main      *)
(*   utils/check_missing.py   analyze_missing                              *)
(*                                                                         *)
(* Python str values are TLA+ strings (characters are strings of length    *)
(* one, taken with SubSeq).  A cell of a csv.DictReader row is a str or    *)
(* None: it is modelled as a tuple of length at most one, None == << >>    *)
(* and the str s as << s >>.  An exception is the name of its class.       *)
(* The characters of the model are those from U+0001 to U+00FF, which a    *)
(* TLA+ string can hold (the grave accent excepted); on them lower(),      *)
(* strip() and int() do what Python does.                                  *)
(*                                                                         *)
(* A file is the UTF-8 text csv.reader parses with its default dialect,    *)
(* held as the lines the reader makes of it.  csv.DictReader takes the     *)
(* first line as the fieldnames, skips blank lines and raises _csv.Error   *)
(* on a cell longer than its field size limit.                             *)
(***************************************************************************)
EXTENDS Integers, Sequences, FiniteSets, TLC

\* ------------------------------------------------------------------------
\* Bounds of the model
\* ------------------------------------------------------------------------

\* longest model name given to normalize_name on its own
MaxNameLen == 3
\* most data rows of a survey file
MaxSurveyRows == 2
\* most data rows of a catalog file
MaxCatalogRows == 2
\* most data rows of a file given to analyze_missing
MaxAnalyzeRows == 3

\* ------------------------------------------------------------------------
\* Python values
\* ------------------------------------------------------------------------

None == << >>
Str(s) == << s >>
IsNone(v) == v = << >>
Val(v) == v[1]
\* Python truthiness of a cell: None and "" are falsy
Truthy(v) == ~IsNone(v) /\ Val(v) # ""

ASCII_UPPER == "ABCDEFGHIJKLMNOPQRSTUVWXYZ"
ASCII_LOWER == "abcdefghijklmnopqrstuvwxyz"
ASCII_DIGITS == "0123456789"
\* the letters above U+007F that str.lower() changes, and what it makes of
\* them
LATIN1_UPPER == "ÀÁÂÃÄÅÆÇÈÉÊËÌÍÎÏÐÑÒÓÔÕÖØÙÚÛÜÝÞ"
LATIN1_LOWER == "àáâãäåæçèéêëìíîïðñòóôõöøùúûüýþ"
\* the characters str.strip() removes: U+0009 to U+000D, U+001C to U+001F,
\* the blank, U+0085 and U+00A0
WHITESPACE == "\t\n\f\r  "
\* the characters int() skips around a literal: U+0009 to U+000D, the blank,
\* U+0085 and U+00A0
INT_WHITESPACE == "\t\n\f\r  "

CharAt(s, i) == SubSeq(s, i, i)
Chars(s) == {CharAt(s, i) : i \in 1..Len(s)}
IndexOf(c, s) == CHOOSE i \in 1..Len(s) : CharAt(s, i) = c

\* the upper-case letters A-Z, all the letters lower() changes, and the
\* lower-case letter of each
UpperChars == Chars(ASCII_UPPER)
CasedChars == Chars(ASCII_UPPER \o LATIN1_UPPER)
LowerOfUpper ==
    [c \in CasedChars |->
        CharAt(ASCII_LOWER \o LATIN1_LOWER, IndexOf(c, ASCII_UPPER \o LATIN1_UPPER))]
WhitespaceChars == Chars(WHITESPACE)
IntWhitespaceChars == Chars(INT_WHITESPACE)
DigitChars == Chars(ASCII_DIGITS)

\* str.lower() on one character
lower_char(c) == IF c \in CasedChars THEN LowerOfUpper[c] ELSE c

\* str.lower()
RECURSIVE lower(_)
lower(s) ==
    IF s = "" THEN "" ELSE lower_char(CharAt(s, 1)) \o lower(SubSeq(s, 2, Len(s)))

\* the Python test  sub in s  on two str
Contains(sub, s) ==
    \E i \in 0..(Len(s) - Len(sub)) : SubSeq(s, i + 1, i + Len(sub)) = sub

\* s without its leading / trailing characters of the set ws
RECURSIVE lstrip_chars(_, _)
lstrip_chars(ws, s) ==
    IF s # "" /\ CharAt(s, 1) \in ws THEN lstrip_chars(ws, SubSeq(s, 2, Len(s))) ELSE s
RECURSIVE rstrip_chars(_, _)
rstrip_chars(ws, s) ==
    IF s # "" /\ CharAt(s, Len(s)) \in ws
    THEN rstrip_chars(ws, SubSeq(s, 1, Len(s) - 1)) ELSE s

\* str.strip()
lstrip(s) == lstrip_chars(WhitespaceChars, s)
rstrip(s) == rstrip_chars(WhitespaceChars, s)
strip(s) == rstrip(lstrip(s))

\* re.sub(pattern, '', s) for a pattern that is one character class: the
\* characters of s that are in `keep` (the complement of the class), in order
RECURSIVE re_sub_class(_, _)
re_sub_class(keep, s) ==
    IF s = "" THEN ""
    ELSE (IF CharAt(s, 1) \in keep THEN CharAt(s, 1) ELSE "")
         \o re_sub_class(keep, SubSeq(s, 2, Len(s)))

\* the complement of the class [^a-zA-Z0-9]
AlnumClass == Chars(ASCII_LOWER) \cup UpperChars \cup DigitChars

\* ------------------------------------------------------------------------
\* merge_datasets.normalize_name
\* ------------------------------------------------------------------------

\* a normalize_name that leaves the letter case as it is, to compare with
normalize_name_keeps_case(name) ==
    IF ~Truthy(name) THEN ""
    ELSE re_sub_class(AlnumClass, Val(name))

normalize_name(name) ==
    IF ~Truthy(name) THEN ""
    ELSE re_sub_class(AlnumClass, lower(Val(name)))

\* ------------------------------------------------------------------------
\* dict rows (csv.DictReader)
\* ------------------------------------------------------------------------

\* A row is [val |-> the dict without its None key, rest |-> the list under
\* the None key (the restkey), << >> when the dict has no None key].
Has(row, k) == k \in DOMAIN row.val
\* row[k] = v
Put(row, k, v) ==
    [row EXCEPT !.val = [x \in (DOMAIN row.val) \cup {k} |-> IF x = k THEN v ELSE row.val[x]]]

\* ------------------------------------------------------------------------
\* int(str)
\* ------------------------------------------------------------------------

DigitValue(c) == IndexOf(c, ASCII_DIGITS) - 1

\* the literal without the whitespace int() skips around it
int_strip(s) == rstrip_chars(IntWhitespaceChars, lstrip_chars(IntWhitespaceChars, s))

\* the literal without its sign
Unsigned(t) == IF t # "" /\ CharAt(t, 1) \in {"+", "-"} THEN SubSeq(t, 2, Len(t)) ELSE t

\* the most digits int() converts: sys.get_int_max_str_digits() as CPython
\* sets it when the script, which does not change it, starts
INT_MAX_STR_DIGITS == 4300

\* whether int(s) returns: optional whitespace around an optional sign and
\* digits, single underscores allowed between digits, and no more digits
\* than the interpreter converts (leading zeros counted)
IsIntLiteral(s) ==
    LET body == Unsigned(int_strip(s))
    IN  /\ body # ""
        /\ Chars(body) \subseteq DigitChars \cup {"_"}
        /\ CharAt(body, 1) # "_"
        /\ CharAt(body, Len(body)) # "_"
        /\ ~Contains("__", body)
        /\ \/ Len(body) <= INT_MAX_STR_DIGITS
           \/ Cardinality({i \in 1..Len(body) : CharAt(body, i) # "_"}) <= INT_MAX_STR_DIGITS

RECURSIVE DigitsValue(_, _)
DigitsValue(body, acc) ==
    IF body = "" THEN acc
    ELSE IF CharAt(body, 1) = "_" THEN DigitsValue(SubSeq(body, 2, Len(body)), acc)
    ELSE DigitsValue(SubSeq(body, 2, Len(body)), 10 * acc + DigitValue(CharAt(body, 1)))

\* the value int(s) returns when IsIntLiteral(s)
IntValue(s) ==
    LET t == int_strip(s)
        magnitude == DigitsValue(Unsigned(t), 0)
    IN  IF CharAt(t, 1) = "-" THEN 0 - magnitude ELSE magnitude

\* ------------------------------------------------------------------------
\* merge_datasets.get_inferred_data
\* ------------------------------------------------------------------------

HighBundle ==
    [Major |-> "Knowledge Engineering",
     Activities |-> "Programming/Coding (e.g., VS Code, IntelliJ, Python), Running Virtual Machines (e.g., VMware, VirtualBox), CAD/3D Modeling (e.g., AutoCAD, Blender), Graphic Design/Video Editing",
     ProgramList |-> "TensorFlow, PyTorch, Unity, Unreal Engine"]

MidBundle ==
    [Major |-> "Software Engineering",
     Activities |-> "Programming/Coding (e.g., VS Code, IntelliJ, Python), Web Browsing and Research, Office/Documentation (e.g., Word, Excel, Google Docs), Database Management",
     ProgramList |-> "VS Code, Git, Postman, XAMPP"]

LowBundle ==
    [Major |-> "No Major Yet",
     Activities |-> "Web Browsing and Research, Office/Documentation (e.g., Word, Excel, Google Docs)",
     ProgramList |-> "Chrome, Word, Excel"]

\* what a call gives: the value returned, or the exception raised
Return(v) == [exc |-> "", val |-> v]
Raise(e) == [exc |-> e, val |-> << >>]

\* try: ram = int(row.get('ram(GB)', 0)) except ValueError: ram = 0
\* (int(None) raises TypeError, which the except clause does not catch)
ram_of(row) ==
    IF ~Has(row, "ram(GB)") THEN Return(0)
    ELSE IF IsNone(row.val["ram(GB)"]) THEN Raise("TypeError")
    ELSE IF IsIntLiteral(Val(row.val["ram(GB)"])) THEN Return(IntValue(Val(row.val["ram(GB)"])))
    ELSE Return(0)

\* row.get(key, '').lower()  (None.lower() raises AttributeError)
lower_of(row, key) ==
    IF ~Has(row, key) THEN Return("")
    ELSE IF IsNone(row.val[key]) THEN Raise("AttributeError")
    ELSE Return(lower(Val(row.val[key])))

\* a high-spec test with the RAM threshold above 16, to compare with
is_high_spec_above_16(ram, gpu) ==
    \/ ram > 16
    \/ Contains("rtx", gpu) \/ Contains("gtx", gpu) \/ Contains("radeon rx", gpu)

\* is_high_spec
is_high_spec(ram, gpu) ==
    \/ ram >= 16
    \/ Contains("rtx", gpu) \/ Contains("gtx", gpu) \/ Contains("radeon rx", gpu)

\* is_mid_spec
is_mid_spec(ram) == ram >= 8

\* the if / elif / else over the two flags
bundle_of(ram, gpu) ==
    IF is_high_spec(ram, gpu) THEN HighBundle
    ELSE IF is_mid_spec(ram) THEN MidBundle
    ELSE LowBundle

get_inferred_data(row) ==
    LET ram == ram_of(row)
        gpu == lower_of(row, "graphics")
        cpu == lower_of(row, "processor_name")
    IN  IF ram.exc # "" THEN Raise(ram.exc)
        ELSE IF gpu.exc # "" THEN Raise(gpu.exc)
        ELSE IF cpu.exc # "" THEN Raise(cpu.exc)
        ELSE Return(bundle_of(ram.val, gpu.val))

\* ------------------------------------------------------------------------
\* csv.DictReader and csv.DictWriter
\* ------------------------------------------------------------------------

Range(seq) == {seq[i] : i \in 1..Len(seq)}
Max(S) == CHOOSE x \in S : \A y \in S : y <= x
Min(S) == CHOOSE x \in S : \A y \in S : x <= y

\* A file on disk: whether it exists, and its lines as csv.reader parses
\* them, the header line first: each line the sequence of its cells, a blank
\* line << >>.  A file without lines is empty.
NoFile == [exists |-> FALSE, lines |-> << >>]
EmptyFile == [exists |-> TRUE, lines |-> << >>]
File(header, rows) == [exists |-> TRUE, lines |-> << header >> \o rows]

\* csv.field_size_limit(), which the scripts do not change: the longest cell
\* csv.reader parses
FIELD_SIZE_LIMIT == 131072

\* a line on which csv.reader raises _csv.Error: a cell over the limit
OverLimit(line) == \E i \in 1..Len(line) : Len(line[i]) > FIELD_SIZE_LIMIT

\* reader.fieldnames of a file that is not empty: its first line
Header(file) == file.lines[1]

\* The dict DictReader makes of one data row: dict(zip(fieldnames, cells)),
\* the fieldnames past the row's end set to None (restval), the cells past
\* the header's end kept as a list under the key None (restkey).
DictRow(header, cells) ==
    [val |-> [k \in Range(header) |->
                LET last == Max({i \in 1..Len(header) : header[i] = k})
                IN  IF last <= Len(cells) THEN Str(cells[last]) ELSE None],
     rest |-> IF Len(cells) > Len(header)
              THEN SubSeq(cells, Len(header) + 1, Len(cells)) ELSE << >>]

\* DictReader.__next__ when csv.reader has read the first n lines of the
\* file: the fieldnames are read first (n = 0) and blank lines are skipped.
\* The dict of the next row and the lines read by then, StopIteration at the
\* end of the file, or _csv.Error on a cell over the limit.
reader_next(lines, n) ==
    LET first == IF n = 0 THEN 2 ELSE n + 1
        rows == {i \in first..Len(lines) : lines[i] # << >>}
    IN  IF lines # << >> /\ n = 0 /\ OverLimit(lines[1])
        THEN [exc |-> "_csv.Error", val |-> << >>, n |-> 1]
        ELSE IF rows = {}
        THEN [exc |-> "StopIteration", val |-> << >>, n |-> Len(lines)]
        ELSE IF OverLimit(lines[Min(rows)])
        THEN [exc |-> "_csv.Error", val |-> << >>, n |-> Min(rows)]
        ELSE [exc |-> "", val |-> DictRow(lines[1], lines[Min(rows)]), n |-> Min(rows)]

\* the rows of list(reader) when no line is over the limit: the lines after
\* the first that are not blank
DataRows(lines) ==
    IF lines = << >> THEN << >> ELSE SelectSeq(Tail(lines), LAMBDA line : line # << >>)

\* DictWriter._dict_to_list with extrasaction='raise': a key of the row that is
\* not a fieldname raises ValueError
HasWrongFields(row, names) ==
    row.rest # << >> \/ ~(DOMAIN row.val \subseteq Range(names))

\* the cells DictWriter writes for a row: row.get(key, '') per fieldname, None
\* written as the empty string
WrittenCells(row, names) ==
    [i \in 1..Len(names) |->
        IF Has(row, names[i]) /\ ~IsNone(row.val[names[i]])
        THEN Val(row.val[names[i]]) ELSE ""]

\* ------------------------------------------------------------------------
\* merge_datasets.main: the steps of one catalog record
\* ------------------------------------------------------------------------

\* a lookup that falls back to the first column when no name has the words,
\* to compare with
find_key_or_first(header, row, words) ==
    LET hits == {i \in 1..Len(header) : \A w \in words : Contains(w, lower(header[i]))}
    IN  IF row.rest # << >> THEN Raise("AttributeError")
        ELSE IF header = << >> THEN Raise("IndexError")
        ELSE Return(header[IF hits = {} THEN 1 ELSE Min(hits)])

\* [k for k in row.keys() if <every word of words> in k.lower()][0]
\* k.lower() raises AttributeError on the None key of a row with surplus cells
find_key(header, row, words) ==
    LET hits == {i \in 1..Len(header) : \A w \in words : Contains(w, lower(header[i]))}
    IN  IF row.rest # << >> THEN Raise("AttributeError")
        ELSE IF hits = {} THEN Raise("IndexError")
        ELSE Return(header[Min(hits)])

\* the record appended to survey_data for one survey row
survey_record(header, row) ==
    LET model_key == find_key(header, row, {"laptop model"})
        major_key == find_key(header, row, {"major"})
        activity_key == find_key(header, row, {"activities"})
        program_list_key == find_key(header, row, {"specialized software", "list"})
    IN  IF model_key.exc # "" THEN Raise(model_key.exc)
        ELSE IF major_key.exc # "" THEN Raise(major_key.exc)
        ELSE IF activity_key.exc # "" THEN Raise(activity_key.exc)
        ELSE IF program_list_key.exc # "" THEN Raise(program_list_key.exc)
        ELSE Return([model_normalized |-> normalize_name(row.val[model_key.val]),
                     Major |-> row.val[major_key.val],
                     Activities |-> row.val[activity_key.val],
                     ProgramList |-> row.val[program_list_key.val]])

HardwareSentinels == {"Missing", "NULL", "null", "None", ""}

\* not row.get(k) or row[k] in ['Missing', 'NULL', 'null', 'None', '']
is_missing(row, k) ==
    \/ ~Has(row, k)
    \/ ~Truthy(row.val[k])
    \/ Val(row.val[k]) \in HardwareSentinels

\* a choice that looks for "amd" and "ryzen" before "intel", to compare with
graphics_for_amd_first(proc) ==
    IF Contains("amd", proc) \/ Contains("ryzen", proc) THEN "AMD Radeon Graphics"
    ELSE IF Contains("intel", proc) THEN "Intel Integrated Graphics"
    ELSE "Integrated Graphics"

\* the graphics text chosen from the lower-cased processor text
graphics_for(proc) ==
    IF Contains("intel", proc) THEN "Intel Integrated Graphics"
    ELSE IF Contains("amd", proc) \/ Contains("ryzen", proc) THEN "AMD Radeon Graphics"
    ELSE "Integrated Graphics"

\* Clean and Fill Missing Hardware Data
fill_graphics(row) ==
    IF ~is_missing(row, "graphics") THEN Return(row)
    ELSE LET proc == lower_of(row, "processor_name")
         IN  IF proc.exc # "" THEN Raise(proc.exc)
             ELSE Return(Put(row, "graphics", Str(graphics_for(proc.val))))

fill_screen_size(row) ==
    IF is_missing(row, "screen_size(inches)")
    THEN Put(row, "screen_size(inches)", Str("15.6")) ELSE row

fill_resolution(row) ==
    IF is_missing(row, "resolution (pixels)")
    THEN Put(row, "resolution (pixels)", Str("1920 x 1080")) ELSE row

impute(row) ==
    LET g == fill_graphics(row)
    IN  IF g.exc # "" THEN g
        ELSE Return(fill_resolution(fill_screen_size(g.val)))

\* the test of the matching loop on one survey record
is_match(survey_row, laptop_model_norm) ==
    /\ survey_row.model_normalized # ""
    /\ \/ Contains(survey_row.model_normalized, laptop_model_norm)
       \/ Contains(laptop_model_norm, survey_row.model_normalized)

\* a matcher that keeps the last record that matches, to compare with
find_match_last(laptop_model_norm, data) ==
    LET hits == {i \in 1..Len(data) : is_match(data[i], laptop_model_norm)}
    IN  IF hits = {} THEN 0 ELSE Max(hits)

\* Find match: the index in survey_data of the record the loop breaks on, 0
\* when the loop ends without a match (match = None)
find_match(laptop_model_norm, data) ==
    LET hits == {i \in 1..Len(data) : is_match(data[i], laptop_model_norm)}
    IN  IF hits = {} THEN 0 ELSE Min(hits)

\* a test that compares the cell as written, in its own case, to compare with
program_list_missing_exact_case(v) ==
    ~Truthy(v) \/ Val(v) \in {"none", "nan", ""}

\* not row['ProgramList'] or row['ProgramList'].lower() in ['none', 'nan', '']
program_list_missing(v) ==
    ~Truthy(v) \/ lower(Val(v)) \in {"none", "nan", ""}

\* row[k] = inferred[k] for each k of keys
put_inferred(row, inferred, keys) ==
    [row EXCEPT !.val =
        [x \in (DOMAIN row.val) \cup keys |->
            IF x \in keys THEN Str(inferred[x]) ELSE row.val[x]]]

\* if match: ... else: ...
assign_fields(row, m, data) ==
    IF m # 0
    THEN LET copied == Put(Put(Put(row, "Major", data[m].Major),
                               "Activities", data[m].Activities),
                           "ProgramList", data[m].ProgramList)
         IN  IF program_list_missing(copied.val["ProgramList"])
             THEN LET inferred == get_inferred_data(copied)
                  IN  IF inferred.exc # "" THEN Raise(inferred.exc)
                      ELSE Return(put_inferred(copied, inferred.val, {"ProgramList"}))
             ELSE Return(copied)
    ELSE LET inferred == get_inferred_data(row)
         IN  IF inferred.exc # "" THEN Raise(inferred.exc)
             ELSE Return(put_inferred(row, inferred.val,
                                      {"Major", "Activities", "ProgramList"}))

\* the body of the loop over the catalog rows: the row as appended to
\* merged_rows or the exception raised, and the match when the matching
\* loop was reached (old_match otherwise)
merge_row(row, data, old_match) ==
    IF ~Has(row, "model_name") THEN [exc |-> "KeyError", val |-> << >>, match |-> old_match]
    ELSE LET laptop_model_norm == normalize_name(row.val["model_name"])
             imputed == impute(row)
             m == find_match(laptop_model_norm, data)
             assigned == assign_fields(imputed.val, m, data)
         IN  IF imputed.exc # ""
             THEN [exc |-> imputed.exc, val |-> << >>, match |-> old_match]
             ELSE [exc |-> assigned.exc, val |-> assigned.val, match |-> m]

\* ------------------------------------------------------------------------
\* check_missing.analyze_missing: the steps of one row, and the report
\* ------------------------------------------------------------------------

MissingKeywords == {"nan", "none", "null", "missing", ""}

\* a test that does not trim the cell, to compare with
is_missing_value_untrimmed(value) ==
    IsNone(value) \/ lower(Val(value)) \in MissingKeywords

\* value is None, or str(value).strip().lower() in missing_keywords
is_missing_value(value) ==
    IsNone(value) \/ lower(strip(Val(value))) \in MissingKeywords

\* the keys of a row's dict in order, without the None key: the header's
\* names, each at its first place
Keys(header) ==
    LET firsts == {i \in 1..Len(header) : \A j \in 1..(i - 1) : header[j] # header[i]}
        place(k) == CHOOSE i \in firsts : Cardinality({j \in firsts : j <= i}) = k
    IN  [k \in 1..Cardinality(firsts) |-> header[place(k)]]

\* the loop over row.items(): the list under the None key of a row with
\* surplus cells is str()-ed to "[...]", which is no keyword, so only the
\* header's keys are counted
count_row(counts, row) ==
    [k \in DOMAIN counts |-> IF is_missing_value(row.val[k]) THEN counts[k] + 1 ELSE counts[k]]

\* str(i) of an int i >= 0
RECURSIVE IntStr(_)
IntStr(i) ==
    IF i < 10 THEN CharAt(ASCII_DIGITS, i + 1)
    ELSE IntStr(i \div 10) \o CharAt(ASCII_DIGITS, (i % 10) + 1)

\* A positive float is [mant, exp]: the number mant * 2^exp, mant a natural
\* number written as its bits, the first one 1.  The significand of a Python
\* float (IEEE 754 binary64) has 53 bits.
FloatPrecision == 53

\* the number a short sequence of bits stands for
RECURSIVE BitsValue(_)
BitsValue(bits) ==
    IF bits = << >> THEN 0
    ELSE 2 * BitsValue(SubSeq(bits, 1, Len(bits) - 1)) + bits[Len(bits)]

\* a natural number written as bytes, as the bits of the bytes
BitsOfBytes(bytes) ==
    [j \in 1..(8 * Len(bytes)) |-> (bytes[((j - 1) \div 8) + 1] \div 2 ^ (7 - ((j - 1) % 8))) % 2]

\* a natural number written as bits, as bytes
BytesOfBits(bits) ==
    LET padded == [i \in 1..((8 - (Len(bits) % 8)) % 8) |-> 0] \o bits
    IN  [k \in 1..(Len(padded) \div 8) |-> BitsValue(SubSeq(padded, 8 * k - 7, 8 * k))]

\* the bits of a positive number from its first 1 on
WithoutLeadingZeros(bits) ==
    SubSeq(bits, CHOOSE i \in 1..Len(bits) : bits[i] = 1 /\ \A j \in 1..(i - 1) : bits[j] = 0,
           Len(bits))

\* bits + 1
Increment(bits) ==
    IF \A i \in 1..Len(bits) : bits[i] = 1 THEN << 1 >> \o [i \in 1..Len(bits) |-> 0]
    ELSE LET last0 == CHOOSE j \in 1..Len(bits) :
                          bits[j] = 0 /\ \A i \in (j + 1)..Len(bits) : bits[i] = 1
         IN  [i \in 1..Len(bits) |-> IF i < last0 THEN bits[i] ELSE IF i = last0 THEN 1 ELSE 0]

\* bytes * k + carry for a small k, from the last byte on
RECURSIVE TimesCarry(_, _, _)
TimesCarry(bytes, k, carry) ==
    IF bytes = << >>
    THEN (IF carry = 0 THEN << >>
          ELSE Append(TimesCarry(<< >>, k, carry \div 256), carry % 256))
    ELSE LET t == bytes[Len(bytes)] * k + carry
         IN  Append(TimesCarry(SubSeq(bytes, 1, Len(bytes) - 1), k, t \div 256), t % 256)

\* bits * k for a small k
Times(bits, k) == WithoutLeadingZeros(BitsOfBytes(TimesCarry(BytesOfBits(bits), k, 0)))

\* the float nearest to bits * 2^exp, plus a nonzero rest below the last bit
\* when sticky: round to nearest, a tie to the even significand
RoundToFloat(bits, exp, sticky) ==
    IF Len(bits) <= FloatPrecision THEN [mant |-> bits, exp |-> exp]
    ELSE LET keep == SubSeq(bits, 1, FloatPrecision)
             dropped == SubSeq(bits, FloatPrecision + 1, Len(bits))
             rest == sticky \/ \E i \in 2..Len(dropped) : dropped[i] = 1
             up == dropped[1] = 1 /\ (rest \/ keep[FloatPrecision] = 1)
         IN  [mant |-> IF up THEN Increment(keep) ELSE keep, exp |-> exp + Len(dropped)]

\* count * 2^s for the least s that makes it at least total
RECURSIVE Normalized(_, _)
Normalized(count, total) ==
    IF count >= total THEN [c |-> count, s |-> 0]
    ELSE LET next == Normalized(2 * count, total)
         IN  [c |-> next.c, s |-> next.s + 1]

\* the first k bytes of r / total after the binary point (r < total), and
\* the remainder left
RECURSIVE DivBytes(_, _, _)
DivBytes(r, total, k) ==
    IF k = 0 THEN [bytes |-> << >>, rem |-> r]
    ELSE LET tail == DivBytes((256 * r) % total, total, k - 1)
         IN  [bytes |-> << (256 * r) \div total >> \o tail.bytes, rem |-> tail.rem]

\* the float count / total_rows, for 0 < count <= total_rows: the quotient
\* to 56 bits after the point, rounded
float_div(count, total) ==
    LET scaled == Normalized(count, total)
        d == DivBytes(scaled.c - total, total, 7)
    IN  RoundToFloat(<< 1 >> \o BitsOfBytes(d.bytes), 0 - scaled.s - 56, d.rem # 0)

\* the float x * k for a small int k
float_mul(x, k) == RoundToFloat(Times(x.mant, k), x.exp, FALSE)

\* the hundredths the format :.2f prints of a float x < 2^53 / 100: the
\* nearest to x, a tie to the even one
round_hundredths(x) ==
    LET bits == Times(x.mant, 100)
        len == Len(bits)
        drop == 0 - x.exp
        q == IF drop >= len THEN 0 ELSE BitsValue(SubSeq(bits, 1, len - drop))
        half == drop <= len /\ bits[len - drop + 1] = 1
        rest == \E i \in 1..len : i > len - drop + 1 /\ bits[i] = 1
    IN  IF half /\ (rest \/ q % 2 = 1) THEN q + 1 ELSE q

\* count / total_rows * 100 in float arithmetic, in hundredths as the format
\* :.2f rounds it
PercentHundredths(count, total) ==
    round_hundredths(float_mul(float_div(count, total), 100))

\* f"{x:.2f}" of count / total * 100
FormatPercent(count, total) ==
    LET h == PercentHundredths(count, total)
    IN  IntStr(h \div 100) \o "." \o IntStr((h % 100) \div 10) \o IntStr(h % 10)

\* the line printed for one column
report_line(key, count, total) ==
    IF count > 0
    THEN key \o ": " \o IntStr(count) \o " (" \o FormatPercent(count, total) \o "%)"
    ELSE key \o ": 0"

\* the lines printed for missing_counts.items(): the columns in the order
\* of the first row's keys, its None key (surplus cells) last
report_lines(header, first_row, counts, total) ==
    LET keys == Keys(header)
    IN  [k \in 1..Len(keys) |-> report_line(keys[k], counts[keys[k]], total)]
        \o (IF first_row.rest # << >> THEN << "None: 0" >> ELSE << >>)

\* ------------------------------------------------------------------------
\* State
\* ------------------------------------------------------------------------

VARIABLES
    pc,            \* where the running function is
    arg, ret,      \* the argument and the result of a function called on its own
    laptop_file,   \* dataset/laptop.csv
    survey_file,   \* dataset/UIT Student Laptop Usage Survey ... .csv
    output_file,   \* dataset/merged_laptop_data_cleaned.csv as main() leaves it
    survey_data,   \* main's list of survey records
    fieldnames,    \* main's output columns
    merged_rows,   \* main's list of processed catalog rows
    match,         \* main's match for the row last processed: the index of the
                   \* survey record in survey_data, 0 for None
    n,             \* main: lines csv.reader has read of the file that is open;
                   \* analyze_missing: rows of data the loop has counted
    exc,           \* the exception that ended the run, "" when none
    stdout,        \* what print() was called with, in order
    total_rows,    \* analyze_missing's row count
    missing_counts \* analyze_missing's count per column

call_vars == << arg, ret >>
main_vars ==
    << laptop_file, survey_file, output_file, survey_data, fieldnames, merged_rows, match,
       n, exc >>
analyze_vars == << total_rows, missing_counts >>
vars == << pc, arg, ret, laptop_file, survey_file, output_file, survey_data, fieldnames,
           merged_rows, match, n, exc, stdout, total_rows, missing_counts >>

\* the state of the variables a function called on its own does not use
MainIdle ==
    /\ laptop_file = NoFile
    /\ survey_file = NoFile
    /\ output_file = NoFile
    /\ survey_data = << >>
    /\ fieldnames = << >>
    /\ merged_rows = << >>
    /\ match = 0
    /\ n = 0
    /\ exc = ""
    /\ stdout = << >>
    /\ total_rows = 0
    /\ missing_counts = << >>

\* ---- normalize_name on its own ------------------------------------------

NameAlphabet == {"A", "b", "Z", "1", " ", "-", "É"}

RECURSIVE StringsUpTo(_, _)
StringsUpTo(alphabet, k) ==
    IF k = 0 THEN {""}
    ELSE LET shorter == StringsUpTo(alphabet, k - 1)
         IN  shorter \cup {s \o c : s \in shorter, c \in alphabet}

\* the names of the documented examples
ExampleNames == {"A-b 1!", "ab1", "MacBook Pro 14", "MacBook Pro"}

NameInputs ==
    {None} \cup {Str(s) : s \in StringsUpTo(NameAlphabet, MaxNameLen) \cup ExampleNames}

InitNormalize ==
    /\ pc = "call"
    /\ arg \in NameInputs
    /\ ret = None
    /\ MainIdle

\* key = normalize_name(x)
CallNormalize ==
    /\ pc = "call"
    /\ pc' = "again"
    /\ ret' = Str(normalize_name(arg))
    /\ UNCHANGED << arg, main_vars, stdout, analyze_vars >>

\* normalize_name(key): the key is normalized a second time
CallNormalizeAgain ==
    /\ pc = "again"
    /\ pc' = "done"
    /\ arg' = ret
    /\ ret' = Str(normalize_name(ret))
    /\ UNCHANGED << main_vars, stdout, analyze_vars >>

NextNormalize == CallNormalize \/ CallNormalizeAgain

SpecNormalize == InitNormalize /\ [][NextNormalize]_vars

\* ---- get_inferred_data on its own ---------------------------------------

\* s written k times
RECURSIVE Repeated(_, _)
Repeated(s, k) ==
    IF k = 0 THEN ""
    ELSE LET half == Repeated(s, k \div 2)
         IN  half \o half \o (IF k % 2 = 1 THEN s ELSE "")

\* a RAM text with one digit more than int() converts
LongRamText == Repeated("1", INT_MAX_STR_DIGITS + 1)

RamTexts ==
    {LongRamText} \cup
    {"32", "16", "15", "8", "7", "4", "0", "", "invalid", "16.0", " 16 ", "+8", "-16",
     "1_6", "_16", "8GB", "016", "16\n", "\r8", "\f8 ", "16", "1 6"}
GpuTexts ==
    {"RTX 3060", "Intel UHD", "NVIDIA GeForce GTX 1650", "AMD Radeon RX 6600",
     "AMD Radeon Graphics", "Radeon  RX", "RT X", ""}
CpuTexts == {"Intel Core i5", "AMD Ryzen 5"}

InferKeys == {"ram(GB)", "graphics", "processor_name"}

\* the rows: every choice of cells (a str or None), and every choice of the
\* columns the file has
InferRows ==
    {[val |-> [k \in K |-> f[k]], rest |-> << >>] :
        f \in [InferKeys ->
                 {None} \cup {Str(s) : s \in RamTexts \cup GpuTexts \cup CpuTexts}],
        K \in SUBSET InferKeys}

InitInfer ==
    /\ pc = "call"
    /\ arg \in
         {r \in InferRows :
            /\ Has(r, "ram(GB)") => r.val["ram(GB)"] \in {None} \cup {Str(s) : s \in RamTexts}
            /\ Has(r, "graphics") => r.val["graphics"] \in {None} \cup {Str(s) : s \in GpuTexts}
            /\ Has(r, "processor_name") =>
                  r.val["processor_name"] \in {None} \cup {Str(s) : s \in CpuTexts}}
    /\ ret = Return(<< >>)
    /\ MainIdle

\* inferred = get_inferred_data(row)
CallInfer ==
    /\ pc = "call"
    /\ pc' = "done"
    /\ ret' = get_inferred_data(arg)
    /\ UNCHANGED << arg, main_vars, stdout, analyze_vars >>

NextInfer == CallInfer

SpecInfer == InitInfer /\ [][NextInfer]_vars

\* ---- the hardware imputation of main() on its own -----------------------

GraphicsCells == {"", "Missing", "NULL", "null", "None", "none", "MISSING", " ", "RTX 3060"}
ProcessorCells ==
    {"Intel Core i5", "INTEL", "AMD Athlon", "Ryzen 5", "AMD Ryzen 5 (not Intel)", "Apple M1", ""}
ScreenCells == {"NULL", "Null", "14"}
ResolutionCells == {"", "None ", "2560 x 1600"}

ImputeKeys == {"graphics", "processor_name", "screen_size(inches)", "resolution (pixels)"}

CellsOf(k) ==
    IF k = "graphics" THEN GraphicsCells
    ELSE IF k = "processor_name" THEN ProcessorCells
    ELSE IF k = "screen_size(inches)" THEN ScreenCells
    ELSE ResolutionCells

\* the rows: each column in the file or not, each cell a str or None
ImputeRows ==
    UNION {{[val |-> f, rest |-> << >>] :
              f \in {g \in [K -> {None} \cup {Str(t) : t \in GraphicsCells \cup ProcessorCells
                                                        \cup ScreenCells \cup ResolutionCells}] :
                       \A k \in K : g[k] = None \/ Val(g[k]) \in CellsOf(k)}} :
           K \in SUBSET ImputeKeys}

InitImpute ==
    /\ pc = "call"
    /\ arg \in ImputeRows
    /\ ret = Return(<< >>)
    /\ MainIdle

\* Clean and Fill Missing Hardware Data, on one row
CallImpute ==
    /\ pc = "call"
    /\ pc' = "done"
    /\ ret' = impute(arg)
    /\ UNCHANGED << arg, main_vars, stdout, analyze_vars >>

NextImpute == CallImpute

SpecImpute == InitImpute /\ [][NextImpute]_vars

\* ---- main() of merge_datasets -------------------------------------------

RECURSIVE SeqsUpTo(_, _)
SeqsUpTo(S, k) ==
    IF k = 0 THEN {<< >>}
    ELSE LET shorter == SeqsUpTo(S, k - 1)
         IN  shorter \cup {Append(q, x) : q \in shorter, x \in S}

\* a sequence without its i-th element (a row of a file that lacks column i)
DropAt(seq, i) ==
    IF i > Len(seq) THEN seq
    ELSE [j \in 1..(Len(seq) - 1) |-> IF j < i THEN seq[j] ELSE seq[j + 1]]

SurveyHeader ==
    << "Timestamp",
       "What is the laptop model you primarily use?",
       "What is your Major?",
       "Which activities do you use your laptop for?",
       "If you use specialized software, please list them" >>

\* data rows of a survey file: keys contained in, containing and unrelated
\* to the catalog's names, an empty key, empty and placeholder cells, a row
\* shorter and a row longer than the header
SurveyRows ==
    { << "t1", "MacBook Pro", "Computer Science", "Coding", "VS Code" >>,
      << "t2", "macbook pro 14 (2021)", "", "", "None" >>,
      << "t3", "", "Information Technology", "Gaming", "" >>,
      << "t4", "Mac", "Design", "Editing", "NaN" >>,
      << "t5", "Dell XPS 13", "Networking" >>,
      << "t6", "HP", "Business", "Browsing", "Excel", "surplus" >> }

\* a cell one character longer than csv.reader parses
LongCell == Repeated("x", FIELD_SIZE_LIMIT + 1)

\* a survey row with such a cell
LongSurveyRow == << "t7", LongCell, "Physics", "Writing", "LaTeX" >>

\* the rows of a survey file whose header lacks column c: none, one, two,
\* blank lines before and between them, blank lines alone, a cell over the
\* limit in the first row and in the second
ShortSurveyRows(c) ==
    LET complete == DropAt(<< "t1", "MacBook Pro", "Computer Science", "Coding", "VS Code" >>, c)
        surplus == DropAt(<< "t6", "HP", "Business", "Browsing", "Excel", "surplus" >>, c)
        long == DropAt(LongSurveyRow, IF c = 2 THEN 3 ELSE c)
    IN  { << >>, << complete >>, << surplus >>, << complete, surplus >>,
          << << >>, surplus, << >>, complete >>, << << >>, << >> >>,
          << long, complete >>, << complete, long >> }

\* survey files: no file, an empty file, a blank line alone and before the
\* header; the expected header with any rows, with blank lines among them
\* and with a cell over the limit; a header lacking one of the four columns;
\* the columns in another order
SurveyFiles ==
    {NoFile, EmptyFile, File(<< >>, << >>),
     File(<< >>, << SurveyHeader,
                    << "t1", "MacBook Pro", "Computer Science", "Coding", "VS Code" >> >>),
     File(SurveyHeader, << << >>, << >> >>),
     File(SurveyHeader,
          << << >>, << "t4", "Mac", "Design", "Editing", "NaN" >>, << >>,
             << "t1", "MacBook Pro", "Computer Science", "Coding", "VS Code" >>, << >> >>),
     File(SurveyHeader,
          << << "t1", "MacBook Pro", "Computer Science", "Coding", "VS Code" >>,
             LongSurveyRow >>)}
    \cup {File(SurveyHeader, rows) : rows \in SeqsUpTo(SurveyRows, MaxSurveyRows)}
    \cup UNION {{File(DropAt(SurveyHeader, c), rows) : rows \in ShortSurveyRows(c)} :
                  c \in 2..5}
    \cup {File(<< SurveyHeader[5], SurveyHeader[3], SurveyHeader[4], SurveyHeader[2] >>,
               << << "VS Code", "Computer Science", "Coding", "MacBook Pro" >> >>)}

LaptopHeader ==
    << "model_name", "processor_name", "ram(GB)", "graphics", "screen_size(inches)",
       "resolution (pixels)" >>

\* data rows of a catalog file: a name that contains a survey key, one that
\* is contained in one, an empty name; RAM of each tier and not a number;
\* hardware cells present, empty and placeholders; a row without its RAM cell
LaptopRows ==
    { << "MacBook Pro 14", "Apple M1", "16", "", "NULL", "" >>,
      << "Dell XPS", "Intel Core i5", "8", "Intel UHD", "14", "1366 x 768" >>,
      << "", "AMD Ryzen 5", "invalid", "None", "missing", "NULL " >>,
      << "MacBook", "Intel Core i5" >> }

\* a row with its name alone, and a row with a cell more than the header
NameOnlyRow == << "Asus" >>
SurplusRow == << "Lenovo Legion", "AMD Ryzen 7", "4", "RTX 3060", "17.3", "Missing", "surplus" >>

\* a catalog row with a cell over the limit
LongLaptopRow == << "Acer Swift", LongCell, "8", "Intel UHD", "14", "1366 x 768" >>

\* catalog files: no file, an empty file, a blank line alone and before the
\* header, a header with a cell over the limit; the expected header with
\* any rows, with blank lines among them, with a cell over the limit, and
\* with the two rows above alone, after and before another row; a header
\* lacking one of its first four columns, with one row
LaptopFiles ==
    {NoFile, EmptyFile, File(<< >>, << >>),
     File(<< >>, << LaptopHeader, << "MacBook Pro 14", "Apple M1", "16", "", "NULL", "" >> >>),
     File(<< "model_name", LongCell >>, << << "Dell XPS", "Intel Core i5" >> >>),
     File(LaptopHeader, << << >>, << >> >>),
     File(LaptopHeader,
          << << >>, << "Dell XPS", "Intel Core i5", "8", "Intel UHD", "14", "1366 x 768" >>,
             << >>, << >>, << "MacBook Pro 14", "Apple M1", "16", "", "NULL", "" >>, << >> >>),
     File(LaptopHeader,
          << << "MacBook Pro 14", "Apple M1", "16", "", "NULL", "" >>, LongLaptopRow,
             << "Dell XPS", "Intel Core i5", "8", "Intel UHD", "14", "1366 x 768" >> >>)}
    \cup {File(LaptopHeader, rows) : rows \in SeqsUpTo(LaptopRows, MaxCatalogRows)}
    \cup {File(LaptopHeader, rows) :
            rows \in { << NameOnlyRow >>, << SurplusRow >>,
                       << << "Dell XPS", "Intel Core i5", "8", "Intel UHD", "14", "1366 x 768" >>,
                          NameOnlyRow >>,
                       << << "Dell XPS", "Intel Core i5", "8", "Intel UHD", "14", "1366 x 768" >>,
                          SurplusRow >>,
                       << SurplusRow,
                          << "MacBook Pro 14", "Apple M1", "16", "", "NULL", "" >> >> }}
    \cup {File(DropAt(LaptopHeader, c), << DropAt(row, c) >>) :
            c \in 1..4,
            row \in { << "MacBook Pro 14", "Apple M1", "16", "", "NULL", "" >>,
                      << "Dell XPS", "Intel Core i5", "8", "Intel UHD", "14", "1366 x 768" >> }}

Init ==
    /\ pc = "start"
    /\ arg = None
    /\ ret = None
    /\ laptop_file \in LaptopFiles
    /\ survey_file \in SurveyFiles
    /\ output_file = NoFile
    /\ survey_data = << >>
    /\ fieldnames = << >>
    /\ merged_rows = << >>
    /\ match = 0
    /\ n = 0
    /\ exc = ""
    /\ stdout = << >>
    /\ total_rows = 0
    /\ missing_counts = << >>

\* Check if files exist
CheckFiles ==
    /\ pc = "start"
    /\ IF ~laptop_file.exists
       THEN /\ stdout' = Append(stdout, "Error: dataset/laptop.csv not found.")
            /\ pc' = "returned"
       ELSE IF ~survey_file.exists
       THEN /\ stdout' = Append(stdout, "Error: dataset/UIT Student Laptop Usage Survey (Responses) - Form responses 1.csv not found.")
            /\ pc' = "returned"
       ELSE /\ stdout' = stdout
            /\ pc' = "read_survey"
    /\ UNCHANGED << call_vars, main_vars, analyze_vars >>

\* Read Survey Data: one turn of the loop over the survey rows, or the
\* _csv.Error that ends it
ReadSurveyRow ==
    /\ pc = "read_survey"
    /\ \E next \in {reader_next(survey_file.lines, n)} :
          /\ next.exc # "StopIteration"
          /\ n' = next.n
          /\ \E rec \in {IF next.exc # "" THEN Raise(next.exc)
                          ELSE survey_record(Header(survey_file), next.val)} :
                IF rec.exc # ""
                THEN /\ exc' = rec.exc
                     /\ pc' = "raised"
                     /\ UNCHANGED survey_data
                ELSE /\ survey_data' = Append(survey_data, rec.val)
                     /\ UNCHANGED << exc, pc >>
    /\ UNCHANGED << call_vars, laptop_file, survey_file, output_file, fieldnames,
                    merged_rows, match, stdout, analyze_vars >>

\* the survey loop ends; the catalog is opened:
\* fieldnames = reader.fieldnames + ['Major', 'Activities', 'ProgramList']
\* (reader.fieldnames is None for an empty file: TypeError; reading the
\* header line raises _csv.Error on a cell over the limit)
OpenLaptop ==
    /\ pc = "read_survey"
    /\ reader_next(survey_file.lines, n).exc = "StopIteration"
    /\ IF laptop_file.lines = << >>
       THEN /\ exc' = "TypeError"
            /\ pc' = "raised"
            /\ n' = 0
            /\ UNCHANGED fieldnames
       ELSE IF OverLimit(Header(laptop_file))
       THEN /\ exc' = "_csv.Error"
            /\ pc' = "raised"
            /\ n' = 1
            /\ UNCHANGED fieldnames
       ELSE /\ fieldnames' = Header(laptop_file) \o << "Major", "Activities", "ProgramList" >>
            /\ n' = 1
            /\ pc' = "merge"
            /\ UNCHANGED exc
    /\ UNCHANGED << call_vars, laptop_file, survey_file, output_file, survey_data,
                    merged_rows, match, stdout, analyze_vars >>

\* Read Laptop Data and Merge: one turn of the loop over the catalog rows,
\* or the _csv.Error that ends it
MergeRow ==
    /\ pc = "merge"
    /\ \E next \in {reader_next(laptop_file.lines, n)} :
          /\ next.exc # "StopIteration"
          /\ n' = next.n
          /\ \E done \in {IF next.exc # ""
                           THEN [exc |-> next.exc, val |-> << >>, match |-> match]
                           ELSE merge_row(next.val, survey_data, match)} :
                /\ match' = done.match
                /\ IF done.exc # ""
                   THEN /\ exc' = done.exc
                        /\ pc' = "raised"
                        /\ UNCHANGED merged_rows
                   ELSE /\ merged_rows' = Append(merged_rows, done.val)
                        /\ UNCHANGED << exc, pc >>
    /\ UNCHANGED << call_vars, laptop_file, survey_file, output_file, survey_data,
                    fieldnames, stdout, analyze_vars >>

\* the rows writerows() has written when it returns or raises: those before
\* the first row DictWriter refuses
RowsWritten(rows, names) ==
    LET bad == {k \in 1..Len(rows) : HasWrongFields(rows[k], names)}
        upto == IF bad = {} THEN Len(rows) ELSE Min(bad) - 1
    IN  [k \in 1..upto |-> WrittenCells(rows[k], names)]

\* Write Output: open(output_file, 'w'), writeheader(), writerows(merged_rows)
WriteOutput ==
    /\ pc = "merge"
    /\ reader_next(laptop_file.lines, n).exc = "StopIteration"
    /\ output_file' = File(fieldnames, RowsWritten(merged_rows, fieldnames))
    /\ IF \E k \in 1..Len(merged_rows) : HasWrongFields(merged_rows[k], fieldnames)
       THEN /\ exc' = "ValueError"
            /\ pc' = "raised"
            /\ stdout' = stdout
       ELSE /\ exc' = exc
            /\ pc' = "returned"
            /\ stdout' = Append(stdout, "Successfully merged data to dataset/merged_laptop_data_cleaned.csv")
    /\ UNCHANGED << call_vars, laptop_file, survey_file, survey_data, fieldnames,
                    merged_rows, match, n, analyze_vars >>

Next == CheckFiles \/ ReadSurveyRow \/ OpenLaptop \/ MergeRow \/ WriteOutput

Spec == Init /\ [][Next]_vars

\* ---- analyze_missing('dataset/merged_laptop_data_cleaned.csv') ----------

AnalyzeHeader == << "model_name", "graphics" >>

\* lines of an analyzed file after its header: cells that are present,
\* empty, placeholders in other case and with blanks around, a row shorter
\* and a row longer than the header, a blank line
AnalyzeRows ==
    { << >>,
      << "Dell XPS", "RTX 3060" >>,
      << "HP", "" >>,
      << " NaN ", "None" >>,
      << "Asus" >>,
      << "null", "NULL\t", "surplus" >>,
      << "Missing data", "n/a" >>,
      << "nan\n", "null" >> }

\* the documented example: ten rows, three of them with an empty graphics cell
ExampleRows ==
    [k \in 1..10 |-> IF k \in {2, 5, 9} THEN << "Dell XPS", "" >> ELSE << "Dell XPS", "RTX 3060" >>]

\* 160 rows, 23 of them with an empty model_name: in float arithmetic
\* 23 / 160 * 100 is just below 14.375 and is printed as 14.37
TieRows ==
    [k \in 1..160 |-> IF k <= 23 THEN << "", "RTX 3060" >> ELSE << "Dell XPS", "RTX 3060" >>]

\* analyzed files: no file, an empty file, a blank line alone and before the
\* header, the two examples, a column twice, a cell over the limit in the
\* header and in a row after rows that are read; the header with any lines
AnalyzeFiles ==
    {NoFile, EmptyFile, File(<< >>, << >>),
     File(<< >>, << AnalyzeHeader, << "HP", "" >> >>),
     File(AnalyzeHeader, ExampleRows), File(AnalyzeHeader, TieRows),
     File(<< "graphics", "ram(GB)", "graphics" >>, << << "RTX 3060", "8", "" >> >>),
     File(<< "model_name", LongCell >>, << << "HP", "" >> >>),
     File(AnalyzeHeader, << << "HP", "" >>, << >>, << "Asus", LongCell >> >>)}
    \cup {File(AnalyzeHeader, rows) : rows \in SeqsUpTo(AnalyzeRows, MaxAnalyzeRows)}

InitAnalyze ==
    /\ pc = "start"
    /\ arg = None
    /\ ret = None
    /\ laptop_file = NoFile
    /\ survey_file = NoFile
    /\ output_file \in AnalyzeFiles
    /\ survey_data = << >>
    /\ fieldnames = << >>
    /\ merged_rows = << >>
    /\ match = 0
    /\ n = 0
    /\ exc = ""
    /\ stdout = << >>
    /\ total_rows = 0
    /\ missing_counts = << >>

\* the file is opened and read: data = list(reader); a _csv.Error is caught
\* by  except Exception  and printed
LoadData ==
    /\ pc = "start"
    /\ IF ~output_file.exists
       THEN /\ stdout' = stdout \o << "Analyzing dataset/merged_laptop_data_cleaned.csv...",
                                      "File not found: dataset/merged_laptop_data_cleaned.csv" >>
            /\ pc' = "returned"
            /\ UNCHANGED analyze_vars
       ELSE IF \E i \in 1..Len(output_file.lines) : OverLimit(output_file.lines[i])
       THEN /\ stdout' = stdout \o << "Analyzing dataset/merged_laptop_data_cleaned.csv...",
                                      "Error: field larger than field limit ("
                                          \o IntStr(FIELD_SIZE_LIMIT) \o ")" >>
            /\ pc' = "returned"
            /\ UNCHANGED analyze_vars
       ELSE IF DataRows(output_file.lines) = << >>
       THEN /\ stdout' = stdout \o << "Analyzing dataset/merged_laptop_data_cleaned.csv...",
                                      "No data found." >>
            /\ pc' = "returned"
            /\ UNCHANGED analyze_vars
       ELSE /\ total_rows' = Len(DataRows(output_file.lines))
            /\ stdout' = stdout \o << "Analyzing dataset/merged_laptop_data_cleaned.csv...",
                                      "Total Rows: " \o IntStr(Len(DataRows(output_file.lines))) >>
            /\ missing_counts' = [k \in Range(Header(output_file)) |-> 0]
            /\ pc' = "count"
    /\ UNCHANGED << call_vars, main_vars >>

\* one turn of the loop  for row in data
CountRow ==
    /\ pc = "count"
    /\ n < total_rows
    /\ missing_counts' =
          count_row(missing_counts,
                    DictRow(Header(output_file), DataRows(output_file.lines)[n + 1]))
    /\ n' = n + 1
    /\ UNCHANGED << pc, call_vars, laptop_file, survey_file, output_file, survey_data,
                    fieldnames, merged_rows, match, exc, stdout, total_rows >>

\* the loop over missing_counts.items() that prints the report
Report ==
    /\ pc = "count"
    /\ n = total_rows
    /\ stdout' = stdout \o << "\nMissing Values per Column:" >>
                  \o report_lines(Header(output_file),
                                  DictRow(Header(output_file), DataRows(output_file.lines)[1]),
                                  missing_counts, total_rows)
    /\ pc' = "returned"
    /\ UNCHANGED << call_vars, main_vars, analyze_vars >>

NextAnalyze == LoadData \/ CountRow \/ Report

SpecAnalyze == InitAnalyze /\ [][NextAnalyze]_vars

\* ------------------------------------------------------------------------
\* Properties
\* ------------------------------------------------------------------------

DerivedFields == {"Major", "Activities", "ProgramList"}

\* the catalog record number k as DictReader gives it to the loop: the dict
\* of the k-th line after the header that is not blank
CatalogRow(k) == DictRow(Header(laptop_file), DataRows(laptop_file.lines)[k])

\* C1: every catalog record, once the merge loop has processed it, has
\* Major, Activities and ProgramList fields that are non-empty strings,
\* whether it matched a survey record or not.
C1_DerivedFieldsNonEmpty ==
    \A k \in 1..Len(merged_rows) :
        \A f \in DerivedFields :
            Has(merged_rows[k], f) /\ Truthy(merged_rows[k].val[f])

\* the predicate of C2 on a survey key s and a catalog key c
C2_Satisfies(s, c) == s # "" /\ (Contains(s, c) \/ Contains(c, s))

\* the index C2 gives for the catalog key c: the smallest index of a survey
\* record that satisfies the predicate, 0 when none does
C2_Expected(c, data) ==
    IF \E j \in 1..Len(data) : C2_Satisfies(data[j].model_normalized, c)
    THEN CHOOSE j \in 1..Len(data) :
            /\ C2_Satisfies(data[j].model_normalized, c)
            /\ \A i \in 1..(j - 1) : ~C2_Satisfies(data[i].model_normalized, c)
    ELSE 0

\* the row the variable match belongs to has been appended to merged_rows
C2_MatchIsOfLastMerged ==
    /\ Len(merged_rows) >= 1
    /\ ~(pc = "raised" /\ output_file = NoFile)

\* C2: the match main() chooses for a catalog record with normalized key c
\* is the survey record of smallest index whose normalized key s is not
\* empty and has s in c or c in s; a later record is not chosen, a record
\* with an empty key is never chosen, and there is no match exactly when no
\* survey record satisfies the predicate.
C2_FirstMatchInLoadedOrder ==
    C2_MatchIsOfLastMerged =>
        LET c == normalize_name(CatalogRow(Len(merged_rows)).val["model_name"])
        IN  /\ match = C2_Expected(c, survey_data)
            /\ match = 0 <=>
                 ~\E j \in 1..Len(survey_data) :
                     C2_Satisfies(survey_data[j].model_normalized, c)
            /\ match # 0 => /\ survey_data[match].model_normalized # ""
                            /\ \A j \in 1..(match - 1) :
                                  ~C2_Satisfies(survey_data[j].model_normalized, c)

\* the catalog record "MacBook Pro 14", the second of a catalog with blank
\* lines, is matched to the survey record "Mac", the first in loaded order of
\* a survey with blank lines, though the next one, "MacBook Pro", is closer
C2_Witness ==
    /\ pc = "merge"
    /\ Len(laptop_file.lines) = 7
    /\ Len(survey_file.lines) = 6
    /\ Len(merged_rows) = 2
    /\ merged_rows[2].val["model_name"] = Str("MacBook Pro 14")
    /\ Len(survey_data) = 2
    /\ survey_data[1].model_normalized = "mac"
    /\ survey_data[2].model_normalized = "macbookpro"
    /\ match = 1

\* a ProgramList cell that C3 has replaced: empty (or absent), or "none" or
\* "nan" in any letter case
C3_Replaced(v) == IsNone(v) \/ Val(v) = "" \/ lower(Val(v)) \in {"none", "nan"}

\* C3 for the k-th catalog record
C3_FieldsOf(k) ==
    LET imputed == impute(CatalogRow(k)).val
        c == normalize_name(CatalogRow(k).val["model_name"])
        m == C2_Expected(c, survey_data)
        inferred == get_inferred_data(imputed).val
        out == merged_rows[k]
    IN  /\ DOMAIN out.val = (DOMAIN imputed.val) \cup DerivedFields
        /\ \A f \in (DOMAIN imputed.val) \ DerivedFields : out.val[f] = imputed.val[f]
        /\ m # 0 =>
             /\ out.val["Major"] = survey_data[m].Major
             /\ out.val["Activities"] = survey_data[m].Activities
             /\ out.val["ProgramList"] =
                   IF C3_Replaced(survey_data[m].ProgramList)
                   THEN Str(inferred.ProgramList)
                   ELSE survey_data[m].ProgramList
        /\ m = 0 => \A f \in DerivedFields : out.val[f] = Str(inferred[f])
        /\ (m = 0 /\ Has(CatalogRow(k), "ram(GB)") /\ CatalogRow(k).val["ram(GB)"] = Str("16")) =>
             /\ out.val["Major"] = Str("Knowledge Engineering")
             /\ out.val["Activities"] = Str("Programming/Coding (e.g., VS Code, IntelliJ, Python), Running Virtual Machines (e.g., VMware, VirtualBox), CAD/3D Modeling (e.g., AutoCAD, Blender), Graphic Design/Video Editing")
             /\ out.val["ProgramList"] = Str("TensorFlow, PyTorch, Unity, Unreal Engine")

\* C3: a catalog record with a survey match has exactly the match's Major and
\* Activities, and the match's ProgramList unless that is empty, "none" or
\* "nan" in any case, when ProgramList alone is the classifier's; a record
\* with no match has the three fields get_inferred_data returns for the
\* record as imputed (RAM 16 and no match: the High bundle); its other
\* fields are those of the imputed record.
C3_DerivedFieldsFromMatchOrClassifier ==
    \A k \in 1..Len(merged_rows) : C3_FieldsOf(k)

\* a record matched to a survey record whose ProgramList is "NaN": Major and
\* Activities are the match's, ProgramList is the classifier's
C3_Witness ==
    /\ Len(merged_rows) >= 1
    /\ match # 0
    /\ survey_data[match].ProgramList = Str("NaN")
    /\ survey_data[match].Major = Str("Design")
    /\ merged_rows[1].val["Major"] = Str("Design")
    /\ merged_rows[1].val["Activities"] = Str("Editing")
    /\ merged_rows[1].val["ProgramList"] = Str("TensorFlow, PyTorch, Unity, Unreal Engine")
    /\ Len(DataRows(laptop_file.lines)) = 1

\* C4: for a record whose RAM text parses to the integer r (0 when it is not
\* an integer) and whose lower-cased graphics text is g, get_inferred_data
\* returns the High bundle iff r >= 16 or g contains "rtx", "gtx" or
\* "radeon rx", the Mid bundle iff it is not High and r >= 8, and the Low
\* bundle otherwise: exactly one of the three bundles.
C4_TierDecision ==
    (pc = "done" /\ \A k \in DOMAIN arg.val : ~IsNone(arg.val[k])) =>
        LET r == IF Has(arg, "ram(GB)") /\ IsIntLiteral(Val(arg.val["ram(GB)"]))
                 THEN IntValue(Val(arg.val["ram(GB)"])) ELSE 0
            g == IF Has(arg, "graphics") THEN lower(Val(arg.val["graphics"])) ELSE ""
            high == r >= 16 \/ \E w \in {"rtx", "gtx", "radeon rx"} : Contains(w, g)
        IN  /\ ret.exc = ""
            /\ ret.val \in {HighBundle, MidBundle, LowBundle}
            /\ Cardinality({HighBundle, MidBundle, LowBundle}) = 3
            /\ ret.val = HighBundle <=> high
            /\ ret.val = MidBundle <=> (~high /\ r >= 8)
            /\ ret.val = LowBundle <=> (~high /\ r < 8)

\* RAM "invalid" is taken as 0: with graphics "Intel UHD" the Low bundle
C4_Witness ==
    /\ pc = "done"
    /\ DOMAIN arg.val = InferKeys
    /\ arg.val["ram(GB)"] = Str("invalid")
    /\ arg.val["graphics"] = Str("Intel UHD")
    /\ ret = Return(LowBundle)

\* a field C5 has replaced: absent, or exactly one of the five placeholders
C5_Placeholder(row, k) ==
    ~Has(row, k) \/ IsNone(row.val[k]) \/ Val(row.val[k]) \in {"Missing", "NULL", "null", "None", ""}

\* the replacement C5 gives for field k of a row
C5_Default(row, k) ==
    IF k = "screen_size(inches)" THEN "15.6"
    ELSE IF k = "resolution (pixels)" THEN "1920 x 1080"
    ELSE LET proc == IF Has(row, "processor_name")
                     THEN lower(Val(row.val["processor_name"])) ELSE ""
         IN  IF Contains("intel", proc) THEN "Intel Integrated Graphics"
             ELSE IF Contains("amd", proc) \/ Contains("ryzen", proc) THEN "AMD Radeon Graphics"
             ELSE "Integrated Graphics"

ImputedFields == {"graphics", "screen_size(inches)", "resolution (pixels)"}

\* C5: the imputation step replaces each of graphics, screen_size(inches) and
\* resolution (pixels) iff the field is absent or exactly "Missing", "NULL",
\* "null", "None" or "", and leaves it unchanged otherwise; the replacement is
\* "15.6", "1920 x 1080", and for graphics the text that goes with the
\* lower-cased processor text ("intel" before "amd" or "ryzen").  The step
\* completes whenever the processor cell is a text or its column is absent.
C5_Imputation ==
    pc = "done" =>
        /\ (Has(arg, "processor_name") => ~IsNone(arg.val["processor_name"])) => ret.exc = ""
        /\ ret.exc = "" =>
             /\ DOMAIN ret.val.val = (DOMAIN arg.val) \cup ImputedFields
             /\ \A k \in ImputedFields :
                   ret.val.val[k] = IF C5_Placeholder(arg, k)
                                    THEN Str(C5_Default(arg, k)) ELSE arg.val[k]
             /\ \A k \in (DOMAIN arg.val) \ ImputedFields : ret.val.val[k] = arg.val[k]

\* graphics "" with processor "Intel Core i5" becomes "Intel Integrated
\* Graphics", screen size "NULL" becomes "15.6", a resolution stays
C5_Witness ==
    /\ pc = "done"
    /\ DOMAIN arg.val = ImputeKeys
    /\ arg.val["graphics"] = Str("")
    /\ arg.val["processor_name"] = Str("Intel Core i5")
    /\ arg.val["screen_size(inches)"] = Str("NULL")
    /\ arg.val["resolution (pixels)"] = Str("2560 x 1600")
    /\ ret.exc = ""
    /\ ret.val.val["graphics"] = Str("Intel Integrated Graphics")
    /\ ret.val.val["screen_size(inches)"] = Str("15.6")
    /\ ret.val.val["resolution (pixels)"] = Str("2560 x 1600")

\* C6: however a run of the merge tool ends, the output file is not written
\* at all or written in full: the catalog's columns followed by Major,
\* Activities, ProgramList, and one record for every catalog record.
C6_OutputAllOrNothing ==
    pc \in {"returned", "raised"} =>
        \/ output_file = NoFile
        \/ /\ Header(output_file) = Header(laptop_file) \o << "Major", "Activities", "ProgramList" >>
           /\ Len(output_file.lines) - 1 = Len(DataRows(laptop_file.lines))

\* a header has no column for one of the four keyword sets of the survey
C7_Lacks(header) ==
    \E words \in {{"laptop model"}, {"major"}, {"activities"}, {"specialized software", "list"}} :
        ~\E i \in 1..Len(header) : \A w \in words : Contains(w, lower(header[i]))

\* the first data row of a file: the place of its first line after the
\* header that is not blank, 0 when it has none
C7_FirstDataRow(lines) ==
    LET rows == {i \in 2..Len(lines) : lines[i] # << >>}
    IN  IF rows = {} THEN 0 ELSE CHOOSE i \in rows : \A j \in rows : i <= j

\* C7 as stated: for a survey file with any number of data rows, zero
\* included, whose header lacks one of the four columns, the run fails with a
\* lookup error during survey loading: it never gets past survey loading,
\* writes no output file and processes no catalog record.  (Stated here for
\* files that have a first line, and a survey whose first line is not blank,
\* with no cell over the reader's limit and no row longer than the header.)
C7_FailsForAnyNumberOfRows ==
    (laptop_file.exists /\ survey_file.exists
       /\ laptop_file.lines # << >>
       /\ survey_file.lines # << >>
       /\ Header(survey_file) # << >>
       /\ \A i \in 1..Len(survey_file.lines) :
              /\ ~OverLimit(survey_file.lines[i])
              /\ Len(survey_file.lines[i]) <= Len(Header(survey_file))
       /\ C7_Lacks(Header(survey_file))) =>
        /\ pc \in {"start", "read_survey", "raised"}
        /\ pc = "raised" => exc = "IndexError"
        /\ output_file = NoFile
        /\ merged_rows = << >>

\* C7 as amended: when both input files exist and the survey's header line
\* (no cell of it over the reader's limit) lacks one of the four columns, a
\* survey with at least one data row that is not blank fails while loading
\* the first such row: with the reader's _csv.Error when that row has a cell
\* over the limit, else with an AttributeError when it has more cells than
\* the header, else with a lookup error (IndexError); no survey record is
\* loaded, no catalog record is processed and no output file is written.
\* A survey without such a row is loaded without any lookup, and the run
\* goes on to the catalog.
C7_FailsOnFirstDataRow ==
    (laptop_file.exists /\ survey_file.exists
       /\ survey_file.lines # << >>
       /\ ~OverLimit(Header(survey_file))
       /\ C7_Lacks(Header(survey_file))) =>
        LET first == C7_FirstDataRow(survey_file.lines)
        IN  /\ first # 0 =>
                 /\ pc \in {"start", "read_survey", "raised"}
                 /\ pc = "read_survey" => n = 0
                 /\ survey_data = << >>
                 /\ merged_rows = << >>
                 /\ output_file = NoFile
                 /\ pc = "raised" =>
                       /\ n = first
                       /\ exc = IF OverLimit(survey_file.lines[first]) THEN "_csv.Error"
                                ELSE IF Len(survey_file.lines[first]) > Len(Header(survey_file))
                                THEN "AttributeError"
                                ELSE "IndexError"
            /\ first = 0 =>
                 /\ survey_data = << >>
                 /\ ~(pc = "raised" /\ fieldnames = << >> /\ exc \in {"IndexError", "AttributeError"})
                 /\ (pc = "read_survey" /\ n = 0) => ENABLED OpenLaptop

\* a survey without a column for the major, whose first line after the
\* header is blank, fails on the row after it: the first data row
C7_Witness ==
    /\ pc = "raised"
    /\ exc = "AttributeError"
    /\ laptop_file.exists
    /\ Len(DataRows(laptop_file.lines)) = 2
    /\ Header(survey_file) = DropAt(SurveyHeader, 3)
    /\ Len(survey_file.lines) = 5
    /\ survey_file.lines[2] = << >>
    /\ n = 3
    /\ survey_data = << >>
    /\ output_file = NoFile

\* C8: processing a catalog record never raises because a cell is absent or
\* unparseable: an absent or non-integer RAM cell is taken as 0, an absent
\* processor cell as the empty string.
C8_NoErrorOnAbsentCell ==
    ~(/\ pc = "raised"
      /\ fieldnames # << >>
      /\ output_file = NoFile
      /\ exc \in {"TypeError", "AttributeError"})

\* the characters of x that are letters a-z, A-Z or digits, in order, the
\* letters in lower case
RECURSIVE C9_AlnumLowered(_)
C9_AlnumLowered(x) ==
    IF x = "" THEN ""
    ELSE (IF CharAt(x, 1) \in Chars(ASCII_LOWER) \cup DigitChars THEN CharAt(x, 1)
          ELSE IF CharAt(x, 1) \in UpperChars
               THEN CharAt(ASCII_LOWER, IndexOf(CharAt(x, 1), ASCII_UPPER))
          ELSE "")
         \o C9_AlnumLowered(SubSeq(x, 2, Len(x)))

\* the strings that differ from x only in letter case
RECURSIVE C9_CaseVariants(_)
C9_CaseVariants(x) ==
    IF x = "" THEN {""}
    ELSE LET c == CharAt(x, 1)
             upper == ASCII_UPPER \o LATIN1_UPPER
             lower_case == ASCII_LOWER \o LATIN1_LOWER
             forms == {c} \cup {d \in Chars(upper \o lower_case) :
                                  \E i \in 1..Len(upper) : {c, d} = {CharAt(upper, i),
                                                                     CharAt(lower_case, i)}}
         IN  {d \o rest : d \in forms, rest \in C9_CaseVariants(SubSeq(x, 2, Len(x)))}

\* C9: normalize_name(x) holds only lower-case letters and digits, those of x
\* in order with every other character removed and the letters lower-cased
\* ("" for an empty or absent x); normalizing twice gives what normalizing
\* once gives; x and y that differ only in letter case have the same key.
C9_NormalizeName ==
    /\ pc = "again" =>
         LET x == IF IsNone(arg) THEN "" ELSE Val(arg)
         IN  /\ Chars(Val(ret)) \subseteq Chars(ASCII_LOWER) \cup DigitChars
             /\ Val(ret) = C9_AlnumLowered(x)
             /\ x = "" => Val(ret) = ""
             /\ \A y \in C9_CaseVariants(x) : normalize_name(Str(y)) = Val(ret)
    /\ pc = "done" => ret = arg

\* "A-b 1!" is normalized to "ab1"
C9_Witness ==
    /\ pc = "again"
    /\ arg = Str("A-b 1!")
    /\ ret = Str("ab1")

\* a cell C10 counts: absent, or a placeholder once trimmed and lower-cased
C10_Counted(cell) ==
    IsNone(cell) \/ lower(strip(Val(cell))) \in {"nan", "none", "null", "missing", ""}

\* the records analyze_missing loads: the lines of the file after the header
\* that are not blank
C10_Records == DataRows(output_file.lines)

\* the file is read without an error of the reader
C10_Loaded ==
    output_file.exists /\ \A i \in 1..Len(output_file.lines) : ~OverLimit(output_file.lines[i])

\* the rows among the first k whose cell in column key is counted
C10_Count(key, k) ==
    Cardinality({i \in 1..k :
        C10_Counted(DictRow(Header(output_file), C10_Records[i]).val[key])})

\* C10: for a record set that is not empty analyze_missing reports, for each
\* column of the first record, the number of rows whose cell is absent or,
\* trimmed and lower-cased, one of "nan", "none", "null", "missing", ""; the
\* count is between 0 and the number of rows; a positive count is printed
\* with the percentage count / total_rows * 100 (to the nearest hundredth),
\* a zero count as "0"; an empty record set reports no data and no counts.
\* The record set is what DictReader loads: blank lines are no records; a
\* file the reader fails on loads no record set, and the error is printed.
C10_MissingCounts ==
    /\ pc = "count" =>
         /\ C10_Loaded
         /\ \A key \in Range(Header(output_file)) : missing_counts[key] = C10_Count(key, n)
    /\ (pc = "returned" /\ C10_Loaded /\ C10_Records # << >>) =>
         LET total == Len(C10_Records)
             keys == Keys(Header(output_file))
         IN  /\ total_rows = total
             /\ Len(stdout) >= 3 + Len(keys)
             /\ stdout[2] = "Total Rows: " \o IntStr(total)
             /\ \A j \in 1..Len(keys) :
                   LET count == C10_Count(keys[j], total)
                       h == PercentHundredths(count, total)
                   IN  /\ missing_counts[keys[j]] = count
                       /\ 0 <= count /\ count <= total
                       /\ count > 0 => /\ 2 * (h * total - count * 10000) <= total
                                       /\ 2 * (count * 10000 - h * total) <= total
                       /\ stdout[3 + j] =
                             IF count = 0 THEN keys[j] \o ": 0"
                             ELSE keys[j] \o ": " \o IntStr(count) \o " ("
                                  \o IntStr(h \div 100) \o "." \o IntStr((h % 100) \div 10)
                                  \o IntStr(h % 10) \o "%)"
    /\ (pc = "returned" /\ output_file = File(AnalyzeHeader, TieRows)) =>
         stdout[4] = "model_name: 23 (14.37%)"
    /\ (pc = "returned" /\ C10_Loaded /\ C10_Records = << >>) =>
         /\ missing_counts = << >>
         /\ stdout = << "Analyzing dataset/merged_laptop_data_cleaned.csv...", "No data found." >>
    /\ (pc = "returned" /\ output_file.exists /\ ~C10_Loaded) =>
         /\ missing_counts = << >>
         /\ Len(stdout) = 2
         /\ stdout[2] = "Error: field larger than field limit (131072)"

\* ten rows, three with an empty graphics cell: "graphics: 3 (30.00%)", and
\* "model_name: 0" for the column with no missing value
C10_Witness ==
    /\ pc = "returned"
    /\ output_file = File(AnalyzeHeader, ExampleRows)
    /\ stdout[4] = "model_name: 0"
    /\ stdout[5] = "graphics: 3 (30.00%)"

====
